---- MODULE Spec2Model ----
(***************************************************************************)
(* Model of backend/backup_manager.py: the MongoDB backup manager of the   *)
(* Gold ERP system.  The backup directory is a map from file names to byte *)
(* sizes; file names are sequences of character codes, so that the name    *)
(* formatting (strftime), the glob pattern, str.replace, strptime and the  *)
(* ordering of names are computed the way the code computes them.          *)
(***************************************************************************)
EXTENDS Integers, Sequences, FiniteSets, TLC

\* ------------------------------------------------------------------ bounds

\* Clock ticks per second (the code's clock has microseconds; names have seconds).
Res == 2
\* First instant of the model: day number (days since 1970-01-01) and second
\* of that day (2024-02-29 23:59:59 UTC: the next second changes day and month).
StartDay == 19782
StartSod == 86399
\* The clock runs over the start instant + 0..MaxTicks ticks (plus the timeouts' jumps).
MaxTicks == 2
\* How many dump timeouts (each takes DumpTimeout seconds) a behaviour may hold.
MaxTimeouts == 1
\* How many BackupManager methods a behaviour calls.
MaxCalls == 2
\* Most unlink() calls that fail during a behaviour.
MaxUnlinkFailures == 1

\* ------------------------------------------------------- program constants

DaySeconds == 86400
DumpTimeout == 600
MiB == 1048576

\* ------------------------------------------------------------- characters

Prefix == <<98, 97, 99, 107, 117, 112, 95>>       \* "backup_"
Suffix == <<46, 116, 97, 114, 46, 103, 122>>      \* ".tar.gz"
Underscore == <<95>>                              \* "_"
NotADate == <<110, 111, 116, 45, 97, 45, 100, 97, 116, 101>>  \* "not-a-date"

IsDigit(c) == c >= 48 /\ c <= 57
DigitVal(c) == c - 48

\* f"{n:0>w}" for n >= 0: the decimal digits of n, zero-padded to width w.
RECURSIVE Pad(_, _)
Pad(n, w) ==
    IF w <= 0 /\ n = 0 THEN <<>>
    ELSE Append(Pad(n \div 10, w - 1), 48 + (n % 10))

StartsWith(s, p) == Len(s) >= Len(p) /\ SubSeq(s, 1, Len(p)) = p
EndsWith(s, p) == Len(s) >= Len(p) /\ SubSeq(s, Len(s) - Len(p) + 1, Len(s)) = p

\* str.replace(old, ""): every non-overlapping occurrence, left to right.
RECURSIVE Replace(_, _)
Replace(s, old) ==
    IF s = <<>> THEN <<>>
    ELSE IF StartsWith(s, old) THEN Replace(SubSeq(s, Len(old) + 1, Len(s)), old)
    ELSE <<Head(s)>> \o Replace(Tail(s), old)

\* Path.glob("backup_*.tar.gz") on a name of the directory.
GlobMatch(name) ==
    /\ Len(name) >= Len(Prefix) + Len(Suffix)
    /\ StartsWith(name, Prefix)
    /\ EndsWith(name, Suffix)

\* Python's str comparison (by code point), used by sorted() on the paths.
RECURSIVE StrLess(_, _)
StrLess(a, b) ==
    IF b = <<>> THEN FALSE
    ELSE IF a = <<>> THEN TRUE
    ELSE IF Head(a) # Head(b) THEN Head(a) < Head(b)
    ELSE StrLess(Tail(a), Tail(b))

\* --------------------------------------------------------------- calendar

IsLeap(y) == (y % 4 = 0 /\ y % 100 # 0) \/ y % 400 = 0

DaysInMonth(y, m) ==
    IF m = 2 THEN (IF IsLeap(y) THEN 29 ELSE 28)
    ELSE IF m \in {4, 6, 9, 11} THEN 30 ELSE 31

\* Days since 1970-01-01 of the proleptic Gregorian date y-m-d.
DaysFromCivil(y, m, d) ==
    LET yy  == IF m <= 2 THEN y - 1 ELSE y
        era == yy \div 400
        yoe == yy - era * 400
        mp  == IF m > 2 THEN m - 3 ELSE m + 9
        doy == (153 * mp + 2) \div 5 + d - 1
        doe == yoe * 365 + yoe \div 4 - yoe \div 100 + doy
    IN  era * 146097 + doe - 719468

\* <<y, m, d>> of a day number (days since 1970-01-01): the year of the
\* 400-year era, the day of the year counted from March 1, the month counted
\* from March (mp), and the date they make.
YearOfEra(doe) == (doe - doe \div 1460 + doe \div 36524 - doe \div 146096) \div 365
DayOfYear(doe, yoe) == doe - (365 * yoe + yoe \div 4 - yoe \div 100)
MonthFromMarch(doy) == (5 * doy + 2) \div 153
CivilOf(era, yoe, doy, mp) ==
    << yoe + era * 400 + (IF mp < 10 THEN 0 ELSE 1),
       IF mp < 10 THEN mp + 3 ELSE mp - 9,
       doy - (153 * mp + 2) \div 5 + 1 >>
CivilOfEra(era, doe) ==
    CivilOf(era, YearOfEra(doe), DayOfYear(doe, YearOfEra(doe)),
            MonthFromMarch(DayOfYear(doe, YearOfEra(doe))))
CivilFromDays(z0) ==
    CivilOfEra((z0 + 719468) \div 146097, (z0 + 719468) % 146097)

\* An instant (a datetime in UTC) is <<day, second of the day, tick of the
\* second>>, the way datetime and timedelta keep days, seconds and microseconds.
DtLess(a, b) ==
    \/ a[1] < b[1]
    \/ a[1] = b[1] /\ a[2] < b[2]
    \/ a[1] = b[1] /\ a[2] = b[2] /\ a[3] < b[3]

\* The instant n >= 0 ticks after dt.
DtAddTicks(dt, n) ==
    LET t == dt[2] * Res + dt[3] + n
        s == t \div Res
    IN  <<dt[1] + s \div DaySeconds, s % DaySeconds, t % Res>>

\* The days of datetime.min and datetime.max, and timedelta's largest days.
MinDay == DaysFromCivil(1, 1, 1)
MaxDay == DaysFromCivil(9999, 12, 31)
MaxDeltaDays == 999999999

\* datetime - timedelta(days=r): <<instant>>, or <<>> for OverflowError.
DtSubDays(dt, r) ==
    IF r > MaxDeltaDays \/ r < -MaxDeltaDays THEN <<>>
    ELSE IF dt[1] - r < MinDay \/ dt[1] - r > MaxDay THEN <<>>
    ELSE << <<dt[1] - r, dt[2], dt[3]>> >>

\* datetime.strftime("%Y%m%d_%H%M%S"): the tick of the second is dropped.
FormatFields(ymd, sod) ==
    Pad(ymd[1], 4) \o Pad(ymd[2], 2) \o Pad(ymd[3], 2) \o Underscore
    \o Pad(sod \div 3600, 2) \o Pad((sod % 3600) \div 60, 2) \o Pad(sod % 60, 2)
Strftime(dt) == FormatFields(CivilFromDays(dt[1]), dt[2])

\* The regex alternatives of one directive of "%Y%m%d_%H%M%S" at position i of
\* s, in the regex's order of preference, each <<width, value>>.
\*   k = 1: %Y  \d\d\d\d           k = 2: %m  1[0-2]|0[1-9]|[1-9]
\*   k = 3: %d  3[0-1]|[1-2]\d|0[1-9]|[1-9]| [1-9]      k = 4: "_"
\*   k = 5: %H  2[0-3]|[0-1]\d|\d  k = 6: %M  [0-5]\d|\d
\*   k = 7: %S  6[0-1]|[0-5]\d|\d
Alternatives(s, i, k) ==
    LET has(n) == i + n - 1 <= Len(s)
        dig(j) == IsDigit(s[j])
        two    == 10 * DigitVal(s[i]) + DigitVal(s[i + 1])
        lo     == IF k \in {2, 3} THEN 1 ELSE 0
        hi     == CASE k = 2 -> 12 [] k = 3 -> 31 [] k = 5 -> 23
                    [] k = 6 -> 59 [] OTHER -> 61
    IN  IF k = 1 THEN
            IF has(4) /\ \A j \in i..(i + 3) : dig(j)
            THEN << <<4, 1000 * DigitVal(s[i]) + 100 * DigitVal(s[i + 1])
                          + 10 * DigitVal(s[i + 2]) + DigitVal(s[i + 3])>> >>
            ELSE <<>>
        ELSE IF k = 4 THEN
            IF has(1) /\ s[i] = 95 THEN << <<1, 0>> >> ELSE <<>>
        ELSE
            (IF has(2) /\ dig(i) /\ dig(i + 1) /\ two >= lo /\ two <= hi
             THEN << <<2, two>> >> ELSE <<>>)
            \o (IF has(1) /\ dig(i) /\ DigitVal(s[i]) >= lo
                THEN << <<1, DigitVal(s[i])>> >> ELSE <<>>)
            \o (IF k = 3 /\ has(2) /\ s[i] = 32 /\ dig(i + 1) /\ DigitVal(s[i + 1]) >= 1
                THEN << <<2, DigitVal(s[i + 1])>> >> ELSE <<>>)

\* re.match of the format's regex from directive k at position i, with the
\* regex engine's backtracking: <<>> when nothing matches, else one element,
\* the directives' values followed by the position after the match.
RECURSIVE MatchFrom(_, _, _)
RECURSIVE TryAlts(_, _, _, _, _)
MatchFrom(s, i, k) ==
    IF k > 7 THEN << <<i>> >>
    ELSE TryAlts(s, i, k, Alternatives(s, i, k), 1)

TryAlts(s, i, k, alts, a) ==
    IF a > Len(alts) THEN <<>>
    ELSE LET rest == MatchFrom(s, i + alts[a][1], k + 1)
         IN  IF rest # <<>> THEN << <<alts[a][2]>> \o rest[1] >>
             ELSE TryAlts(s, i, k, alts, a + 1)

\* datetime.strptime(s, "%Y%m%d_%H%M%S").replace(tzinfo=utc): <<instant>>, or
\* <<>> when it raises ValueError (no match, unconverted data remains, or a
\* field datetime() rejects).
Datetime(y, mo, d, h, mi, sc) ==
    IF y < 1 \/ d > DaysInMonth(y, mo) \/ sc > 59 THEN <<>>
    ELSE << <<DaysFromCivil(y, mo, d), h * 3600 + mi * 60 + sc, 0>> >>
Converted(s, m) ==
    IF m = <<>> THEN <<>>
    ELSE IF m[1][8] # Len(s) + 1 THEN <<>>
    ELSE Datetime(m[1][1], m[1][2], m[1][3], m[1][5], m[1][6], m[1][7])
Strptime(s) == Converted(s, MatchFrom(s, 1, 1))

\* int(size / (1024 * 1024) * 100) / 100 in place of round(): truncation.
TruncateMb(bytes) == (bytes * 100) \div MiB

\* round(size / (1024 * 1024), 2), in hundredths of a MiB: the quotient is
\* exact in binary floating point, and round() rounds an exact tie to even.
RoundMb(bytes) ==
    LET q == (bytes * 100) \div MiB
        r == (bytes * 100) % MiB
    IN  IF 2 * r > MiB THEN q + 1
        ELSE IF 2 * r < MiB THEN q
        ELSE IF q % 2 = 0 THEN q ELSE q + 1

\* ------------------------------------------------------------ environment

\* os.getenv(): NONE when the variable is absent.
NONE == "<None>"
MongoUrls == {NONE, "", "mongodb://db:27017"}
DbNames == {NONE, "", "gold_erp"}

\* int(os.getenv("BACKUP_RETENTION_DAYS", 7)): the default, and the other
\* values the model draws the variable from.
RetentionDefault == 7
HugeRetention == 800000
Retentions == {-1, 0, RetentionDefault, HugeRetention}

\* Python's truth value of an environment value: None and "" are false.
Truthy(v) == v # NONE /\ v # ""

StartInstant == DtAddTicks(<<StartDay, 0, 0>>, StartSod * Res)

TimeoutTicks == DumpTimeout * Res

TicksSinceStart(dt) ==
    ((dt[1] - StartInstant[1]) * DaySeconds + dt[2] - StartInstant[2]) * Res + dt[3]

\* backup_<timestamp> and backup_<timestamp>.tar.gz of a call started at dt.
DumpName(dt) == Prefix \o Strftime(dt)
ArchiveName(dt) == DumpName(dt) \o Suffix

\* Sizes in bytes the archive step produces in the model.
ArchiveSizes == {5242, 5243}
PartialSize == 1024

\* What earlier runs and the operator left in the backup directory: archives
\* RetentionDefault - 1, RetentionDefault and RetentionDefault + 1 days old at
\* the start instant, backup_not-a-date.tar.gz, backup_backup_202411_123.tar.gz
\* and backup.tar.gz (which the pattern does not match).
OldInstant(age) == <<StartInstant[1] - age, StartInstant[2], 0>>
OddName == Prefix \o Prefix \o <<50, 48, 50, 52, 49, 49, 95, 49, 50, 51>> \o Suffix
NotADateName == Prefix \o NotADate \o Suffix
NoUnderscoreName == <<98, 97, 99, 107, 117, 112>> \o Suffix
OldFiles ==
    (ArchiveName(OldInstant(RetentionDefault - 1)) :> 5243)
    @@ (ArchiveName(OldInstant(RetentionDefault)) :> 131072)
    @@ (ArchiveName(OldInstant(RetentionDefault + 1)) :> 393216)
    @@ (NotADateName :> 5242)
    @@ (OddName :> 655360)
    @@ (NoUnderscoreName :> 2 * MiB)
NoFiles == [n \in {} |-> 0]

\* ------------------------------------------------------------------ state

VARIABLES
    phase,      \* "boot", "ready" (module imported) or "aborted" (RuntimeError)
    env,        \* the environment: MONGO_URL, DB_NAME, RETENTION_DAYS
    backupDir,  \* whether BACKUP_DIR exists
    logDir,     \* whether LOG_DIR exists
    files,      \* the files of BACKUP_DIR: name -> size in bytes
    dumps,      \* the dump directories of BACKUP_DIR (names)
    now,        \* the clock (an instant)
    calls,      \* how many BackupManager methods were called
    failures,   \* how many unlink() calls failed
    last        \* the last call of a BackupManager method and what it did

vars == <<phase, env, backupDir, logDir, files, dumps, now, calls, failures, last>>

NoCall ==
    [op |-> "none", outcome |-> "none", result |-> <<>>, started |-> <<>>,
     dump |-> "none", size |-> -1, cutoff |-> <<>>, deleted |-> {},
     unlinkFailed |-> {}]

Init ==
    /\ phase = "boot"
    /\ env \in [MONGO_URL : MongoUrls, DB_NAME : DbNames, RETENTION_DAYS : Retentions]
    /\ \/ backupDir = FALSE /\ logDir = FALSE /\ files = NoFiles
       \/ backupDir = TRUE /\ logDir = TRUE /\ files = OldFiles
    /\ dumps = {}
    /\ now = StartInstant
    /\ calls = 0
    /\ failures = 0
    /\ last = NoCall

\* ---------------------------------------------------------------- startup

\* The mkdirs of lines 36-38 moved before the check of lines 33-34.
StartupMkdirFirst ==
    /\ phase = "boot"
    /\ backupDir' = TRUE
    /\ logDir' = TRUE
    /\ phase' = IF ~Truthy(env.MONGO_URL) \/ ~Truthy(env.DB_NAME)
                THEN "aborted" ELSE "ready"
    /\ UNCHANGED <<env, files, dumps, now, calls, failures, last>>

\* Lines 29-38: the check of the required variables, then the mkdirs.
Startup ==
    /\ phase = "boot"
    /\ IF ~Truthy(env.MONGO_URL) \/ ~Truthy(env.DB_NAME)
       THEN /\ phase' = "aborted"
            /\ UNCHANGED <<backupDir, logDir>>
       ELSE /\ phase' = "ready"
            /\ backupDir' = TRUE
            /\ logDir' = TRUE
    /\ UNCHANGED <<env, files, dumps, now, calls, failures, last>>

\* ------------------------------------------------------------------ clock

InClock(dt) ==
    LET o == TicksSinceStart(dt)
    IN  o \div TimeoutTicks <= MaxTimeouts /\ o % TimeoutTicks <= MaxTicks

Tick ==
    /\ phase = "ready"
    /\ calls < MaxCalls
    /\ InClock(DtAddTicks(now, 1))
    /\ now' = DtAddTicks(now, 1)
    /\ UNCHANGED <<phase, env, backupDir, logDir, files, dumps, calls, failures, last>>

\* ---------------------------------------------------------------- cleanup

\* The directory with one file added or replaced, and with one file removed.
Put(fs, name, size) == [n \in DOMAIN fs \cup {name} |-> IF n = name THEN size ELSE fs[n]]
Remove(fs, name) == [n \in DOMAIN fs \ {name} |-> fs[n]]

\* The instants the clock takes, and every file name of the model.
ClockInstants ==
    {DtAddTicks(StartInstant, k * TimeoutTicks + o) : k \in 0..MaxTimeouts, o \in 0..MaxTicks}
NameUniverse == DOMAIN OldFiles \cup {ArchiveName(t) : t \in ClockInstants}

\* The names of a set in ascending str order.
RECURSIVE SortedAsc(_)
SortedAsc(S) ==
    IF S = {} THEN <<>>
    ELSE LET lo == CHOOSE x \in S : \A y \in S \ {x} : StrLess(x, y)
         IN  <<lo>> \o SortedAsc(S \ {lo})

Reversed(q) == [i \in 1..Len(q) |-> q[Len(q) + 1 - i]]

\* Tabulated once over the names of the model: the sorted order of the names,
\* the names glob("backup_*.tar.gz") yields, and lines 115-117 on each name
\* (the two replace() calls, then strptime: <<instant>>, or <<>> for ValueError).
NameOrder == SortedAsc(NameUniverse)
GlobNames == {n \in NameUniverse : GlobMatch(n)}
ParsedTimestamp == [n \in NameUniverse |-> Strptime(Replace(Replace(n, Prefix), Suffix))] @@ <<>>

Matching(fs) == DOMAIN fs \cap GlobNames
Sorted(S) == SelectSeq(NameOrder, LAMBDA n : n \in S)

\* What glob("backup_*.tar.gz") yields on the directory.  The order is the
\* directory's (os.scandir) and is not specified; the loops below do not depend
\* on it, and the model takes the sorted one.
Glob(fs) == Sorted(Matching(fs))

\* "dt <= cutoff" in place of line 118's "dt < cutoff".
IsExpiredOrAtCutoff(dt, cutoff) == ~DtLess(cutoff, dt)

\* Line 118: dt < cutoff.
IsExpired(dt, cutoff) == DtLess(dt, cutoff)

\* Lines 115-118 on the file f: its name parses and the timestamp is older
\* than the cutoff, so that line 119 calls unlink() on it.
Unlinks(f, cutoff) ==
    \E i \in DOMAIN ParsedTimestamp[f] : IsExpired(ParsedTimestamp[f][i], cutoff)

\* Lines 115-122, one turn of the loop for the file f: acc holds the files,
\* the names deleted (and logged) and the names whose unlink() raised.
CleanupStep(f, acc, cutoff, failing) ==
    IF ~Unlinks(f, cutoff) THEN acc
    ELSE IF f \in failing THEN [acc EXCEPT !.failed = @ \cup {f}]
    ELSE [acc EXCEPT !.files = Remove(@, f), !.deleted = @ \cup {f}]

\* The loop with the try around it instead of inside it: the first unlink()
\* that raises ends the loop.
RECURSIVE CleanupLoopAbort(_, _, _, _, _)
CleanupLoopAbort(order, i, acc, cutoff, failing) ==
    IF i > Len(order) \/ acc.failed # {} THEN acc
    ELSE CleanupLoopAbort(order, i + 1, CleanupStep(order[i], acc, cutoff, failing),
                          cutoff, failing)

\* Lines 114-122: the loop over what glob() yields, from the i-th name on.
RECURSIVE CleanupLoop(_, _, _, _, _)
CleanupLoop(order, i, acc, cutoff, failing) ==
    IF i > Len(order) THEN acc
    ELSE CleanupLoop(order, i + 1, CleanupStep(order[i], acc, cutoff, failing),
                     cutoff, failing)

NoExc == [type |-> "none", msg |-> ""]

\* What a call that ends with the exception exc before the loop reports.
NoCleanup(exc, fs) ==
    [exc |-> exc, cutoff |-> <<>>, files |-> fs, deleted |-> {}, failed |-> {}]

\* Lines 112-122 with the cutoff c of line 112 (<<>> when it raised).
CleanupFrom(fs, c, failing) ==
    IF c = <<>>
    THEN NoCleanup([type |-> "OverflowError", msg |-> "date value out of range"], fs)
    ELSE CleanupLoop(Glob(fs), 1,
                     [exc |-> NoExc, cutoff |-> c, files |-> fs,
                      deleted |-> {}, failed |-> {}],
                     c[1], failing)

\* cleanup_old_backups() at the instant `at` on the files fs: the exception it
\* raises (if any), the cutoff, and what the loop did.
CleanupOldBackups(fs, at, failing) ==
    CleanupFrom(fs, DtSubDays(at, env.RETENTION_DAYS), failing)

\* The name sets whose unlink() fails during a call that computes `cutoff`
\* (<<>> when it raises before the loop): names the loop calls unlink() on.
FailSets(fs, cutoff) ==
    IF cutoff = <<>> THEN {{}}
    ELSE {F \in SUBSET {n \in Matching(fs) : Unlinks(n, cutoff[1])} :
             Cardinality(F) <= MaxUnlinkFailures - failures}

\* The end of a direct call of cleanup_old_backups() that did r.
CleanupEnd(r) ==
    /\ files' = r.files
    /\ failures' = failures + Cardinality(r.failed)
    /\ last' = [NoCall EXCEPT !.op = "cleanup_old_backups",
                   !.outcome = IF r.exc = NoExc THEN "return" ELSE "raise",
                   !.result = IF r.exc = NoExc THEN <<>>
                              ELSE [exception |-> r.exc.type],
                   !.cutoff = r.cutoff, !.deleted = r.deleted,
                   !.unlinkFailed = r.failed]

\* A direct call of cleanup_old_backups().
Cleanup ==
    /\ phase = "ready"
    /\ calls < MaxCalls
    /\ calls' = calls + 1
    /\ \E failing \in FailSets(files, DtSubDays(now, env.RETENTION_DAYS)) :
         CleanupEnd(CleanupOldBackups(files, now, failing))
    /\ UNCHANGED <<phase, env, backupDir, logDir, dumps, now>>

\* ------------------------------------------------------------------- list

\* sorted(glob) without reverse=True.
SortedPathsAscending(fs) == Glob(fs)

\* Lines 124-132: sorted(glob, reverse=True), then one entry per path.
SortedPaths(fs) == Reversed(Glob(fs))

Entries(fs, q) == [i \in 1..Len(q) |-> [file |-> q[i], size_mb |-> RoundMb(fs[q[i]])]]
ListEntries(fs) == Entries(fs, SortedPaths(fs))

ListBackups ==
    /\ phase = "ready"
    /\ calls < MaxCalls
    /\ calls' = calls + 1
    /\ last' = [NoCall EXCEPT !.op = "list_backups", !.outcome = "return",
                              !.result = ListEntries(files)]
    /\ UNCHANGED <<phase, env, backupDir, logDir, files, dumps, now, failures>>

\* ----------------------------------------------------------------- create

\* "except RuntimeError" in place of line 107's "except Exception".
CatchesRuntimeErrorOnly(type) == type = "RuntimeError"

\* Line 107: "except Exception" catches every exception class the body raises.
Catches(type) == type \in {"RuntimeError", "TimeoutExpired", "OSError", "OverflowError"}

Stderrs == {"", "Failed: can't create session: auth error"}

\* Lines 101-109: what create_backup() returns (or raises) after its cleanup
\* step did cl (or was not reached: cl.exc is then the exception of the body),
\* for the archive of `size` bytes (-1: none was measured).
CreateBackupEnd(archive, dumpOut, size, cl) ==
    /\ files' = cl.files
    /\ failures' = failures + Cardinality(cl.failed)
    /\ last' = [op |-> "create_backup",
                outcome |-> IF cl.exc = NoExc \/ Catches(cl.exc.type)
                            THEN "return" ELSE "raise",
                result |-> IF cl.exc = NoExc
                           THEN [success |-> TRUE, file |-> archive,
                                 size_mb |-> RoundMb(size)]
                           ELSE IF Catches(cl.exc.type)
                           THEN [success |-> FALSE, error |-> cl.exc.msg]
                           ELSE [exception |-> cl.exc.type],
                started |-> <<now>>,
                dump |-> dumpOut,
                size |-> size,
                cutoff |-> cl.cutoff,
                deleted |-> cl.deleted,
                unlinkFailed |-> cl.failed]

\* Lines 68-109.  The inputs are what the collaborators do during the call:
\*   dumpOut   mongodump: "ok", "nonzero" (with stderr) or "timeout"
\*   leftover  whether a failed dump leaves its directory behind
\*   archOut   make_archive: "ok" (an archive of `size` bytes) or "fail"
\*             (OSError, leaving a partial archive when `partial`)
\*   rmOk      whether rmtree succeeds;  statOk  whether stat succeeds
\*   elapsed   ticks from the start of the call to its cleanup step (a call
\*             that fails earlier is followed by the clock's own ticks)
\*   failing   the names whose unlink() fails in the cleanup step
CreateBackupCall(dumpOut, stderr, leftover, archOut, partial, size, rmOk, statOk, elapsed, failing) ==
    LET name    == DumpName(now)
        archive == name \o Suffix
        at      == DtAddTicks(now, elapsed)
        \* lines 77-91
        dumps1  == IF dumpOut = "ok" \/ leftover THEN dumps \cup {name} ELSE dumps
        exc1    == CASE dumpOut = "timeout" ->
                          [type |-> "TimeoutExpired",
                           msg |-> "Command timed out after 600 seconds"]
                     [] dumpOut = "nonzero" -> [type |-> "RuntimeError", msg |-> stderr]
                     [] OTHER -> NoExc
        \* line 93
        files2  == IF exc1 # NoExc THEN files
                   ELSE IF archOut = "ok" THEN Put(files, archive, size)
                   ELSE IF partial THEN Put(files, archive, PartialSize)
                   ELSE files
        exc2    == IF exc1 = NoExc /\ archOut = "fail"
                   THEN [type |-> "OSError", msg |-> "No space left on device"]
                   ELSE exc1
        \* line 94
        dumps3  == IF exc2 = NoExc /\ rmOk THEN dumps1 \ {name} ELSE dumps1
        exc3    == IF exc2 = NoExc /\ ~rmOk
                   THEN [type |-> "OSError", msg |-> "Permission denied"]
                   ELSE exc2
        \* line 96
        exc4    == IF exc3 = NoExc /\ ~statOk
                   THEN [type |-> "OSError", msg |-> "No such file or directory"]
                   ELSE exc3
    IN  /\ InClock(at)
        /\ dumps' = dumps3
        /\ now' = at
        \* line 99
        /\ CreateBackupEnd(archive, dumpOut, IF exc4 = NoExc THEN size ELSE -1,
                           IF exc4 = NoExc THEN CleanupOldBackups(files2, at, failing)
                           ELSE NoCleanup(exc4, files2))

CreateBackup ==
    /\ phase = "ready"
    /\ calls < MaxCalls
    /\ calls' = calls + 1
    /\ \/ \E stderr \in Stderrs, leftover \in BOOLEAN :
            CreateBackupCall("nonzero", stderr, leftover, "ok", FALSE, 0, TRUE, TRUE,
                             0, {})
       \/ CreateBackupCall("timeout", "", TRUE, "ok", FALSE, 0, TRUE, TRUE,
                           TimeoutTicks, {})
       \/ \E partial \in BOOLEAN :
            CreateBackupCall("ok", "", FALSE, "fail", partial, 0, TRUE, TRUE,
                             0, {})
       \/ \E size \in ArchiveSizes, rmOk \in BOOLEAN :
            CreateBackupCall("ok", "", FALSE, "ok", FALSE, size, rmOk, ~rmOk,
                             0, {})
       \/ \E size \in ArchiveSizes, elapsed \in 0..MaxTicks :
            LET fs == Put(files, ArchiveName(now), size)
                c  == DtSubDays(DtAddTicks(now, elapsed), env.RETENTION_DAYS)
            IN  \E failing \in FailSets(fs, c) :
                    CreateBackupCall("ok", "", FALSE, "ok", FALSE, size, TRUE, TRUE,
                                     elapsed, failing)
    /\ UNCHANGED <<phase, env, backupDir, logDir>>

Next == Startup \/ Tick \/ CreateBackup \/ Cleanup \/ ListBackups
Spec == Init /\ [][Next]_vars

\* ================================================================= claims

\* The instants archives of the model are named after, and their names.
ArchiveInstants ==
    {<<t[1], t[2], 0>> : t \in ClockInstants}
    \cup {OldInstant(RetentionDefault + d) : d \in {-1, 0, 1}}
ArchiveNames == [t \in ArchiveInstants |-> ArchiveName(t)] @@ <<>>

\* backup_<YYYYMMDD_HHMMSS>: seven characters, eight digits, "_", six digits.
IsTimestampText(ts) ==
    /\ Len(ts) = 15
    /\ \A i \in (1..8) \cup (10..15) : IsDigit(ts[i])
    /\ ts[9] = 95
IsExactName(n) ==
    /\ Len(n) = Len(Prefix) + 15 + Len(Suffix)
    /\ StartsWith(n, Prefix)
    /\ EndsWith(n, Suffix)
    /\ IsTimestampText(SubSeq(n, Len(Prefix) + 1, Len(Prefix) + 15))

IsCreate == last.op = "create_backup"
IsSuccess == IsCreate /\ last.outcome = "return" /\ last.result.success
CallStep == calls' # calls
OldArchive(age) == ArchiveName(OldInstant(age))

\* C1: create_backup() never lets an exception escape: whatever the dump, the
\* archive, rmtree, stat and cleanup steps do, the call returns
\* {success: true, file, size_mb} or {success: false, error}.
C1_NoExceptionEscapes ==
    IsCreate =>
        /\ last.outcome = "return"
        /\ \/ /\ DOMAIN last.result = {"success", "file", "size_mb"}
              /\ last.result.success = TRUE
           \/ /\ DOMAIN last.result = {"success", "error"}
              /\ last.result.success = FALSE

\* C1 witness: a call whose dump timed out, returned as a failure record.
C1_Witness ==
    /\ IsCreate
    /\ last.dump = "timeout"
    /\ last.outcome = "return"
    /\ last.result.success = FALSE

\* C2 (as claimed): when the dump tool exits non-zero, the record has
\* success=false and a non-empty error, and no archive of the call's timestamp
\* exists afterwards.
C2_DumpFailureRecord ==
    (IsCreate /\ last.dump = "nonzero") =>
        /\ last.outcome = "return"
        /\ last.result.success = FALSE
        /\ last.result.error # ""
        /\ ArchiveName(last.started[1]) \notin DOMAIN files

\* C3 (as claimed): a successful call names backup_<timestamp>.tar.gz after the
\* instant the call started, and its size_mb is greater than 0.
C3_SizePositive ==
    IsSuccess =>
        /\ last.result.file = ArchiveName(last.started[1])
        /\ last.result.size_mb > 0

\* C3 (amended): a successful call names backup_<YYYYMMDD_HHMMSS>.tar.gz after
\* the instant the call started; its size_mb is the archive's size in MiB
\* rounded to hundredths, which is >= 0, and > 0 exactly when the archive has
\* at least 5243 bytes (MiB / 200 rounded up).
C3_SizeRounded ==
    IsSuccess =>
        LET f  == last.result.file
            ts == SubSeq(f, Len(Prefix) + 1, Len(f) - Len(Suffix))
            t  == last.started[1]
            mb == last.result.size_mb
        IN  /\ IsExactName(f)
            /\ Strptime(ts) = << <<t[1], t[2], 0>> >>
            /\ mb >= 0
            /\ 2 * (mb * MiB - 100 * last.size) <= MiB
            /\ 2 * (100 * last.size - mb * MiB) <= MiB
            /\ (mb > 0) <=> (200 * last.size >= MiB)

\* C3 witness: a successful call whose archive is so small that size_mb is 0.
C3_Witness == IsSuccess /\ last.size > 0 /\ last.result.size_mb = 0

\* The cutoff of the last call: the one its cleanup step computed, or, for a
\* call that did not come to it, the start of the call minus the retention.
CutoffOfCall ==
    IF last.cutoff # <<>> THEN last.cutoff
    ELSE IF last.started # <<>> THEN DtSubDays(last.started[1], env.RETENTION_DAYS)
    ELSE <<>>

\* C4 (as claimed): after a create_backup() or cleanup_old_backups() call no
\* archive with a timestamp older than the current time minus the retention
\* is left.
C4_RemovesEveryExpired ==
    (last.op \in {"create_backup", "cleanup_old_backups"} /\ CutoffOfCall # <<>>) =>
        \A t \in ArchiveInstants :
            DtLess(t, CutoffOfCall[1]) => ArchiveNames[t] \notin DOMAIN files

\* C4 (amended): a call that computes the cutoff (a direct cleanup, or a
\* create_backup() that comes to its cleanup step) removes every archive whose
\* timestamp is older than the cutoff and whose unlink() does not fail, and
\* keeps every archive whose timestamp is not older, the one at the cutoff
\* included.
C4_Retention ==
    [][ (CallStep /\ last'.cutoff # <<>>) =>
            \A t \in ArchiveInstants :
                LET n == ArchiveNames[t]
                IN  /\ (DtLess(t, last'.cutoff[1]) /\ n \notin last'.unlinkFailed)
                           => n \notin DOMAIN files'
                    /\ (~DtLess(t, last'.cutoff[1]) /\ n \in DOMAIN files)
                           => n \in DOMAIN files' ]_vars

\* C4 witness: retention 7, a create_backup() whose cutoff is the instant of
\* the archive 7 days old: the archive 8 days old is removed, those 7 and 6
\* days old are kept.
C4_Witness ==
    /\ IsSuccess
    /\ env.RETENTION_DAYS = RetentionDefault
    /\ last.cutoff = << OldInstant(RetentionDefault) >>
    /\ OldArchive(RetentionDefault + 1) \in last.deleted
    /\ OldArchive(RetentionDefault) \in DOMAIN files
    /\ OldArchive(RetentionDefault - 1) \in DOMAIN files

\* C5 (as claimed): cleanup_old_backups() leaves every file that matches
\* backup_*.tar.gz without being named exactly backup_<YYYYMMDD_HHMMSS>.tar.gz
\* as it is, and does not raise because of it.
C5_MalformedUntouched ==
    [][ (CallStep /\ last'.op = "cleanup_old_backups" /\ last'.cutoff # <<>>) =>
            /\ last'.outcome = "return"
            /\ \A n \in DOMAIN files :
                   (GlobMatch(n) /\ ~IsExactName(n)) =>
                       n \in DOMAIN files' /\ files'[n] = files[n] ]_vars

\* C6: list_backups() returns one entry for every file matching the pattern,
\* in descending order of the names, which for archives is most recent first;
\* the empty sequence when nothing matches.
C6_ListOrder ==
    last.op = "list_backups" =>
        LET r == last.result
            M == {n \in DOMAIN files : GlobMatch(n)}
        IN  /\ Len(r) = Cardinality(M)
            /\ {r[i].file : i \in 1..Len(r)} = M
            /\ \A i, j \in 1..Len(r) : i < j => StrLess(r[j].file, r[i].file)
            /\ \A i, j \in 1..Len(r) : \A t1, t2 \in ArchiveInstants :
                   (i < j /\ r[i].file = ArchiveNames[t1] /\ r[j].file = ArchiveNames[t2])
                       => DtLess(t2, t1)
            /\ (M = {}) => (r = <<>>)

\* C6 witness: a listing with three archives in it, most recent first: one
\* made under the model's clock, then those 6 and 7 days old.
C6_Witness ==
    /\ last.op = "list_backups"
    /\ \E i, j, k \in 1..Len(last.result) :
           /\ i < j /\ j < k
           /\ \E t \in ClockInstants : last.result[i].file = ArchiveName(t)
           /\ last.result[j].file = OldArchive(RetentionDefault - 1)
           /\ last.result[k].file = OldArchive(RetentionDefault)

\* C7: when MONGO_URL or DB_NAME is absent or empty, the only step is the
\* abort of the startup: no directory is made, nothing in the backup directory
\* changes and no method of the manager runs.
C7_FailFast ==
    [][ (~Truthy(env.MONGO_URL) \/ ~Truthy(env.DB_NAME)) =>
            /\ phase = "boot"
            /\ phase' = "aborted"
            /\ UNCHANGED <<backupDir, logDir, files, dumps, calls, last>> ]_vars

\* C7 witness: the startup aborted and the backup directory does not exist.
C7_Witness == phase = "aborted" /\ ~backupDir /\ ~logDir

\* C8: an unlink() that fails in cleanup is swallowed for that file alone: the
\* call returns, and every other archive older than the cutoff is deleted.
C8_UnlinkFailureSwallowed ==
    (last.unlinkFailed # {}) =>
        /\ last.outcome = "return"
        /\ \A t \in ArchiveInstants :
               (DtLess(t, last.cutoff[1]) /\ ArchiveNames[t] \notin last.unlinkFailed)
                   => ArchiveNames[t] \notin DOMAIN files

\* C8 witness: a direct cleanup in which the unlink() of the archive 8 days old
\* failed and the archive 7 days old, next in the loop, was deleted.
C8_Witness ==
    /\ last.op = "cleanup_old_backups"
    /\ last.outcome = "return"
    /\ last.unlinkFailed = {OldArchive(RetentionDefault + 1)}
    /\ OldArchive(RetentionDefault) \in last.deleted

\* C9 (as claimed): an archive that exists is never changed, and is removed
\* only by a cleanup that finds its timestamp older than the cutoff.
C9_ArchivesImmutable ==
    [][ \A t \in ArchiveInstants :
            LET n == ArchiveNames[t]
            IN  n \in DOMAIN files =>
                    \/ n \in DOMAIN files' /\ files'[n] = files[n]
                    \/ /\ n \notin DOMAIN files'
                       /\ n \in last'.deleted
                       /\ DtLess(t, last'.cutoff[1]) ]_vars

\* C10 (as claimed): when create_backup() returns success=true, the archive it
\* names exists, a list_backups() made next holds it, and the dump directory
\* of the call is gone.
C10_SuccessKeepsArchive ==
    IsSuccess =>
        /\ last.result.file \in DOMAIN files
        /\ \E i \in DOMAIN ListEntries(files) :
               ListEntries(files)[i].file = last.result.file
        /\ DumpName(last.started[1]) \notin dumps
====
